---- MODULE Spec2Model ----
(***************************************************************************)
(* A model of the public S3 bucket scanner (AWS-Bucket-Scraper-Extended.py *)
(* and the two simpler scrapers beside it): the command-line planner, the  *)
(* region grammar, the URL builders, the region detection chain and the    *)
(* enumeration and aggregation of bucket reports.                          *)
(*                                                                         *)
(* Python strings are TLA+ strings; Python's None is the value None below, *)
(* a string no input alphabet of the model can produce.  A Python dict is  *)
(* the sequence of its <<key, value>> items in insertion order.            *)
(***************************************************************************)
EXTENDS Integers, Sequences, FiniteSets, TLC

VARIABLES
    \* is_valid_region called on its own
    region_str, valid_ret,
    \* parse_command_line_args and the selection of the work list
    sys_argv, args, combine, buckets, i, parse_pc, parse_ret, buckets_to_process,
    \* the URL builders
    bucket_name, region, file_key, bucket_url, object_url, bucket_results,
    \* get_bucket_region
    reg_bucket, reg_pc, probes, head_resp, api_resp, get_resp, reg_ret,
    \* the region detection phase and the scan of the resolved targets
    detect_idx, processed_buckets, combine_mode, run_pc, scan_idx, outcomes,
    combined_results, global_extension_count, files_written

validVars  == <<region_str, valid_ret>>
parseVars  == <<sys_argv, args, combine, buckets, i, parse_pc, parse_ret, buckets_to_process>>
urlVars    == <<bucket_name, region, file_key, bucket_url, object_url, bucket_results>>
regionVars == <<reg_bucket, reg_pc, probes, head_resp, api_resp, get_resp, reg_ret>>
runVars    == <<detect_idx, processed_buckets, combine_mode, run_pc, scan_idx, outcomes,
                combined_results, global_extension_count, files_written>>
vars       == <<validVars, parseVars, urlVars, regionVars, runVars>>

----------------------------------------------------------------------------
(* Python values and string operations                                      *)

None == "<None>"

\* bool(x) of an optional string: None and "" are falsy
Truthy(x) == x # None /\ x # ""

\* str(x) as an f-string field formats it
Format(x) == IF x = None THEN "None" ELSE x

Char(s, k) == SubSeq(s, k, k)

\* s.startswith(p)
StartsWith(s, p) == Len(p) <= Len(s) /\ SubSeq(s, 1, Len(p)) = p

\* s.find(sub) + 1: the position of the first occurrence of sub in s, 0 if none
Find(s, sub) ==
    LET hits == {k \in 1..(Len(s) - Len(sub) + 1) : SubSeq(s, k, k + Len(sub) - 1) = sub}
    IN  IF hits = {} THEN 0 ELSE CHOOSE k \in hits : \A m \in hits : k <= m

\* sub in s
Contains(s, sub) == Find(s, sub) # 0

\* s.rfind(sub) + 1: the position of the last occurrence of sub in s, 0 if none
RFind(s, sub) ==
    LET hits == {k \in 1..(Len(s) - Len(sub) + 1) : SubSeq(s, k, k + Len(sub) - 1) = sub}
    IN  IF hits = {} THEN 0 ELSE CHOOSE k \in hits : \A m \in hits : k >= m

\* s.split(sep)[0]: s up to the first sep, all of s if there is none
SplitFirst(s, sep) ==
    IF Contains(s, sep) THEN SubSeq(s, 1, Find(s, sep) - 1) ELSE s

\* what follows the first sep in s (s has one)
AfterFirst(s, sep) == SubSeq(s, Find(s, sep) + Len(sep), Len(s))

\* s.split(sep)[1], s holding sep: from the first sep to the second one
SplitSecond(s, sep) == SplitFirst(AfterFirst(s, sep), sep)

\* s.split(sep)[-1]: what follows the last sep, all of s if there is none
SplitLast(s, sep) ==
    IF Contains(s, sep) THEN SubSeq(s, RFind(s, sep) + Len(sep), Len(s)) ELSE s

\* len(s.split(sep)) for a one-character sep: one more than its occurrences
SplitCount(s, sep) == Cardinality({k \in 1..Len(s) : Char(s, k) = sep}) + 1

Digits == {"0", "1", "2", "3", "4", "5", "6", "7", "8", "9"}

\* s.strip() for the blank
RECURSIVE Strip(_)
Strip(s) ==
    IF s # "" /\ Char(s, 1) = " " THEN Strip(SubSeq(s, 2, Len(s)))
    ELSE IF s # "" /\ Char(s, Len(s)) = " " THEN Strip(SubSeq(s, 1, Len(s) - 1))
    ELSE s

\* int(s) does not raise ValueError: blanks stripped, one optional sign, then
\* digits that single underscores may group
IntParses(s) ==
    LET t == Strip(s)
        u == IF t # "" /\ Char(t, 1) \in {"+", "-"} THEN SubSeq(t, 2, Len(t)) ELSE t
    IN  /\ u # ""
        /\ \A k \in 1..Len(u) : Char(u, k) \in Digits \cup {"_"}
        /\ Char(u, 1) \in Digits
        /\ Char(u, Len(u)) \in Digits
        /\ \A k \in 1..(Len(u) - 1) : ~(Char(u, k) = "_" /\ Char(u, k + 1) = "_")

\* every string over alphabet of length at most n
RECURSIVE StringsUpTo(_, _)
StringsUpTo(alphabet, n) ==
    IF n = 0 THEN {""}
    ELSE LET shorter == StringsUpTo(alphabet, n - 1)
         IN  shorter \cup {s \o c : s \in shorter, c \in alphabet}

----------------------------------------------------------------------------
(* is_valid_region                                                          *)

valid_prefixes == <<"us-", "eu-", "ap-", "sa-", "ca-", "me-", "af-", "cn-">>

\* is_valid_region asking for two dash-separated parts only
is_valid_region_two_parts(s) ==
    IF s = "" \/ s = None THEN FALSE
    ELSE IF ~(\E k \in 1..Len(valid_prefixes) : StartsWith(s, valid_prefixes[k])) THEN FALSE
    ELSE IF SplitCount(s, "-") < 2 THEN FALSE
    ELSE IntParses(SplitLast(s, "-"))

is_valid_region(s) ==
    IF s = "" \/ s = None THEN FALSE
    ELSE IF ~(\E k \in 1..Len(valid_prefixes) : StartsWith(s, valid_prefixes[k])) THEN FALSE
    ELSE IF SplitCount(s, "-") < 3 THEN FALSE
    ELSE IntParses(SplitLast(s, "-"))

----------------------------------------------------------------------------
(* The parts of the state a specification leaves alone                      *)

\* an optional list: None, or a list
NoList == [none |-> TRUE]
SomeList(l) == [none |-> FALSE, list |-> l]

ValidIdle == region_str = "" /\ valid_ret = <<>>

ParseIdle ==
    /\ sys_argv = <<>> /\ args = <<>> /\ combine = FALSE /\ buckets = <<>> /\ i = 0
    /\ parse_pc = "idle" /\ parse_ret = <<>> /\ buckets_to_process = <<>>

UrlIdle ==
    /\ bucket_name = "" /\ region = None /\ file_key = ""
    /\ bucket_url = None /\ object_url = None /\ bucket_results = <<>>

RegionIdle ==
    /\ reg_bucket = "" /\ reg_pc = "idle" /\ probes = <<>>
    /\ head_resp = <<>> /\ api_resp = <<>> /\ get_resp = <<>> /\ reg_ret = <<>>

RunIdle ==
    /\ detect_idx = 0 /\ processed_buckets = <<>> /\ combine_mode = FALSE /\ run_pc = "idle"
    /\ scan_idx = 0 /\ outcomes = <<>> /\ combined_results = <<>>
    /\ global_extension_count = <<>> /\ files_written = <<>>

----------------------------------------------------------------------------
(* is_valid_region applied to one string                                    *)

MaxRegionLen == 6

RegionAlphabet == {"u", "s", "-", "1"}

\* the strings the documentation and the usage header name, and the other
\* prefixes, signs, separators and letter cases
RegionSamples ==
    {"us-east-1", "ap-southeast-2", "us-bucket", "mybucket", "eu-west-2",
     "eu-central-1", "sa-east-1", "ca-central-1", "me-south-1", "af-south-1",
     "cn-north-1", "us-gov-west-1", "xx-east-1", "US-EAST-1", "us-east-",
     "us-east-1a", "us-east-+1", "us-east-1_0", "us-east-1__0", "us-east- 1",
     "us-east-_1", "use-ast-1", "b.c", "eu-data", "-us-east-1"}

RegionInputs == StringsUpTo(RegionAlphabet, MaxRegionLen) \cup RegionSamples

ValidInit ==
    /\ region_str \in RegionInputs
    /\ valid_ret = <<>>
    /\ ParseIdle /\ UrlIdle /\ RegionIdle /\ RunIdle

\* is_valid_region(region_str) returns
CallIsValidRegion ==
    /\ valid_ret = <<>>
    /\ valid_ret' = <<is_valid_region(region_str)>>
    /\ UNCHANGED <<region_str, parseVars, urlVars, regionVars, runVars>>

ValidNext == CallIsValidRegion

SpecValid == ValidInit /\ [][ValidNext]_vars

----------------------------------------------------------------------------
(* parse_command_line_args and the choice of the work list                  *)

MaxArgs == 4

Tokens == {"--combine", "alpha", "us-east-1", "b.c", "us-bucket"}

RECURSIVE SeqsUpTo(_, _)
SeqsUpTo(S, n) ==
    IF n = 0 THEN {<<>>}
    ELSE LET shorter == SeqsUpTo(S, n - 1)
         IN  shorter \cup {Append(q, x) : q \in shorter, x \in S}

\* the command lines of the usage header
UsageArgvs ==
    {<<"--combine", "alpha", "us-east-1", "beta", "gamma", "eu-west-2">>,
     <<"bucket1", "bucket2", "us-west-2", "bucket3", "bucket4", "eu-central-1">>,
     <<"my.bucket.name", "us-east-1">>}

public_buckets == <<<<"Bucket1", None>>, <<"Bucket2", "us-west-2">>, <<"Bucket3", None>>>>

ParseInit ==
    /\ sys_argv \in {<<"script.py">> \o t : t \in SeqsUpTo(Tokens, MaxArgs) \cup UsageArgvs}
    /\ args = <<>> /\ combine = FALSE /\ buckets = <<>> /\ i = 0
    /\ parse_pc = "entry" /\ parse_ret = <<>> /\ buckets_to_process = <<>>
    /\ ValidIdle /\ UrlIdle /\ RegionIdle /\ RunIdle

\* ArgsAfterFlag without the test that tokens are left after the flag
ArgsAfterFlagUnchecked(argv) ==
    IF Len(argv) < 2 THEN [ret |-> TRUE, combine |-> FALSE, args |-> <<>>]
    ELSE LET a == Tail(argv)
         IN  IF a[1] = "--combine"
             THEN [ret |-> FALSE, combine |-> TRUE, args |-> Tail(a)]
             ELSE [ret |-> FALSE, combine |-> FALSE, args |-> a]

\* the part of parse_command_line_args before its loop: whether it returns None
\* for the targets at once, the combine flag and the tokens left to parse
ArgsAfterFlag(argv) ==
    IF Len(argv) < 2 THEN [ret |-> TRUE, combine |-> FALSE, args |-> <<>>]
    ELSE LET a == Tail(argv)
             c == a[1] = "--combine"
             rest == IF c THEN Tail(a) ELSE a
         IN  IF Len(rest) = 0
             THEN [ret |-> TRUE, combine |-> c, args |-> rest]
             ELSE [ret |-> FALSE, combine |-> c, args |-> rest]

\* NextIsRegion without the call of is_valid_region
NextIsRegionAny(a, k) == k + 1 < Len(a)

\* the loop's test, k being Python's index: a following token exists and is a region
NextIsRegion(a, k) == k + 1 < Len(a) /\ is_valid_region(a[k + 2])

ParseEntry ==
    /\ parse_pc = "entry"
    /\ LET e == ArgsAfterFlag(sys_argv)
       IN  /\ combine' = e.combine
           /\ args' = e.args
           /\ IF e.ret
              THEN /\ parse_pc' = "returned"
                   /\ parse_ret' = <<[combine |-> e.combine, buckets |-> NoList]>>
              ELSE /\ parse_pc' = "loop"
                   /\ parse_ret' = parse_ret
    /\ buckets' = <<>>
    /\ i' = 0
    /\ UNCHANGED <<sys_argv, buckets_to_process, validVars, urlVars, regionVars, runVars>>

\* one iteration of the while loop
ParseStep ==
    /\ parse_pc = "loop"
    /\ i < Len(args)
    /\ IF NextIsRegion(args, i)
       THEN /\ buckets' = Append(buckets, <<args[i + 1], args[i + 2]>>)
            /\ i' = i + 2
       ELSE /\ buckets' = Append(buckets, <<args[i + 1], None>>)
            /\ i' = i + 1
    /\ UNCHANGED <<sys_argv, args, combine, parse_pc, parse_ret, buckets_to_process,
                   validVars, urlVars, regionVars, runVars>>

\* the loop ends and the function returns
ParseReturn ==
    /\ parse_pc = "loop"
    /\ ~(i < Len(args))
    /\ parse_ret' = <<[combine |-> combine, buckets |-> SomeList(buckets)]>>
    /\ parse_pc' = "returned"
    /\ UNCHANGED <<sys_argv, args, combine, buckets, i, buckets_to_process,
                   validVars, urlVars, regionVars, runVars>>

\* the main block's choice between the command line's targets and the default list
SelectBuckets ==
    /\ parse_pc = "returned"
    /\ LET cmd_buckets == parse_ret[1].buckets
       IN  buckets_to_process' =
               IF ~cmd_buckets.none /\ Len(cmd_buckets.list) > 0
               THEN cmd_buckets.list
               ELSE public_buckets
    /\ parse_pc' = "selected"
    /\ UNCHANGED <<sys_argv, args, combine, buckets, i, parse_ret,
                   validVars, urlVars, regionVars, runVars>>

ParseNext == ParseEntry \/ ParseStep \/ ParseReturn \/ SelectBuckets

SpecParse == ParseInit /\ [][ParseNext]_vars

----------------------------------------------------------------------------
(* Properties of is_valid_region                                            *)

RecognizedPrefixes == {"us-", "eu-", "ap-", "sa-", "ca-", "me-", "af-", "cn-"}

\* t reads as a whole number: between optional blanks, an optional sign and
\* then digits, which single underscores may group
Numeric(t) ==
    \E a \in 1..Len(t) : \E b \in a..Len(t) :
        /\ Char(t, a) \in Digits /\ Char(t, b) \in Digits
        /\ \A k \in a..b : Char(t, k) \in Digits \/ (Char(t, k) = "_" /\ Char(t, k + 1) # "_")
        /\ \A k \in (b + 1)..Len(t) : Char(t, k) = " "
        /\ \/ \A k \in 1..(a - 1) : Char(t, k) = " "
           \/ /\ a > 1 /\ Char(t, a - 1) \in {"+", "-"}
              /\ \A k \in 1..(a - 2) : Char(t, k) = " "

\* the region-shape grammar: a recognized prefix, at least three components
\* between dashes, and a numeric last component
RegionShaped(s) ==
    /\ \E p \in RecognizedPrefixes : StartsWith(s, p)
    /\ \E a \in 1..Len(s) : \E b \in (a + 1)..Len(s) : Char(s, a) = "-" /\ Char(s, b) = "-"
    /\ \E d \in 1..Len(s) :
        /\ Char(s, d) = "-"
        /\ \A k \in (d + 1)..Len(s) : Char(s, k) # "-"
        /\ Numeric(SubSeq(s, d + 1, Len(s)))

\* C10: is_valid_region(s) is true exactly for the strings of the region-shape
\* grammar (a recognized prefix, at least three dash-separated components, a
\* numeric last component); it accepts "us-east-1" and "ap-southeast-2" and
\* rejects "us-bucket", "mybucket" and the empty string.
C10_RegionGrammar ==
    valid_ret # <<>> =>
        /\ valid_ret[1] <=> RegionShaped(region_str)
        /\ region_str \in {"us-east-1", "ap-southeast-2"} => valid_ret[1]
        /\ region_str \in {"us-bucket", "mybucket", ""} => ~valid_ret[1]

C10_Witness ==
    /\ valid_ret = <<TRUE>>
    /\ region_str = "ap-southeast-2"

----------------------------------------------------------------------------
(* Properties of parse_command_line_args                                    *)

\* the tokens a target list was read from: each name, then its region if set
RECURSIVE Flatten(_)
Flatten(bs) ==
    IF bs = <<>> THEN <<>>
    ELSE <<bs[1][1]>> \o (IF bs[1][2] = None THEN <<>> ELSE <<bs[1][2]>>) \o Flatten(Tail(bs))

\* the tokens of the command line after the script name and an optional
\* leading --combine
TargetTokens(argv) ==
    LET t == Tail(argv)
    IN  IF t # <<>> /\ t[1] = "--combine" THEN Tail(t) ELSE t

\* C6: the tokens after an optional leading --combine are consumed strictly
\* left to right: the token at the cursor is a bucket name, the next one is its
\* region iff it exists and is_valid_region accepts it (cursor +2, otherwise +1
\* and the region unset); every token is used exactly once, targets keep the
\* input order, and the documented example parses as documented.
C6_LeftToRight ==
    (parse_pc \in {"loop", "returned", "selected"} /\ args # <<>>) =>
        /\ args = TargetTokens(sys_argv)
        /\ combine = (sys_argv[2] = "--combine")
        /\ i <= Len(args)
        /\ Flatten(buckets) = SubSeq(args, 1, i)
        /\ \A k \in 1..Len(buckets) :
            LET used == Len(Flatten(SubSeq(buckets, 1, k)))
            IN  IF buckets[k][2] # None
                THEN /\ is_valid_region(buckets[k][2])
                     /\ buckets[k] = <<args[used - 1], args[used]>>
                ELSE /\ buckets[k][1] = args[used]
                     /\ used < Len(args) => ~is_valid_region(args[used + 1])
        /\ parse_pc # "loop" =>
            /\ i = Len(args)
            /\ parse_ret = <<[combine |-> combine, buckets |-> SomeList(buckets)]>>
        /\ (parse_pc # "loop"
              /\ sys_argv = <<"script.py", "--combine", "alpha", "us-east-1",
                              "beta", "gamma", "eu-west-2">>) =>
            parse_ret = <<[combine |-> TRUE,
                           buckets |-> SomeList(<<<<"alpha", "us-east-1">>,
                                                  <<"beta", None>>,
                                                  <<"gamma", "eu-west-2">>>>)]>>

C6_Witness ==
    /\ parse_pc = "returned"
    /\ sys_argv = <<"script.py", "--combine", "alpha", "us-east-1", "beta", "gamma", "eu-west-2">>
    /\ Len(parse_ret[1].buckets.list) = 3

\* C7: parse_command_line_args returns for the targets either None (use the
\* default configuration) or a non-empty list, never an empty list; no token,
\* or --combine alone, gives None, and the run then takes the default list.
C7_NeverEmptyList ==
    parse_pc \in {"returned", "selected"} =>
        LET b == parse_ret[1].buckets
        IN  /\ b.none \/ Len(b.list) >= 1
            /\ Tail(sys_argv) \in {<<>>, <<"--combine">>} => b.none
            /\ (parse_pc = "selected" /\ b.none) => buckets_to_process = public_buckets
            /\ (parse_pc = "selected" /\ ~b.none) => buckets_to_process = b.list

C7_Witness ==
    /\ parse_pc = "selected"
    /\ Tail(sys_argv) = <<"--combine">>
    /\ parse_ret[1].buckets.none
    /\ buckets_to_process = public_buckets

----------------------------------------------------------------------------
(* URL construction, key encoding and extension extraction                  *)

Letters ==
    {"a", "b", "c", "d", "e", "f", "g", "h", "i", "j", "k", "l", "m", "n", "o", "p", "q",
     "r", "s", "t", "u", "v", "w", "x", "y", "z", "A", "B", "C", "D", "E", "F", "G", "H",
     "I", "J", "K", "L", "M", "N", "O", "P", "Q", "R", "S", "T", "U", "V", "W", "X", "Y", "Z"}

\* the characters urllib.parse.quote never encodes
AlwaysSafe == Letters \cup Digits \cup {"_", ".", "-", "~"}

\* the percent escape of an ASCII character quote encodes
PercentCode(c) ==
    CASE c = " " -> "%20"
      [] c = "#" -> "%23"
      [] c = "%" -> "%25"
      [] c = "&" -> "%26"
      [] c = "+" -> "%2B"
      [] c = "?" -> "%3F"

\* quote(key, safe='/')
RECURSIVE quote(_)
quote(key) ==
    IF key = "" THEN ""
    ELSE LET c == Char(key, 1)
         IN  (IF c \in AlwaysSafe \cup {"/"} THEN c ELSE PercentCode(c))
                 \o quote(SubSeq(key, 2, Len(key)))

\* bucket_has_dots looking for a dash
bucket_has_dashes(name) == Contains(name, "-")

bucket_has_dots(name) == Contains(name, ".")

get_bucket_url(name, reg) ==
    IF bucket_has_dots(name)
    THEN IF Truthy(reg) /\ reg # "us-east-1"
         THEN "https://s3." \o Format(reg) \o ".amazonaws.com/" \o name
         ELSE "https://s3.amazonaws.com/" \o name
    ELSE "https://" \o name \o ".s3.amazonaws.com"

\* the link list_files_in_bucket builds for an object
object_link(name, reg, encoded_key) ==
    IF bucket_has_dots(name)
    THEN IF reg # "us-east-1"
         THEN "https://s3." \o Format(reg) \o ".amazonaws.com/" \o name \o "/" \o encoded_key
         ELSE "https://s3.amazonaws.com/" \o name \o "/" \o encoded_key
    ELSE "https://" \o name \o ".s3.amazonaws.com/" \o encoded_key

\* the suffix of the key from its last dot, wherever that dot stands
splitext_ext_last_dot(key) ==
    IF RFind(key, ".") = 0 THEN "" ELSE SubSeq(key, RFind(key, "."), Len(key))

\* os.path.splitext(key)[1]: from the last dot of the last path component,
\* unless only dots precede it there
splitext_ext(key) ==
    LET sepIndex == RFind(key, "/")
        dotIndex == RFind(key, ".")
    IN  IF dotIndex > sepIndex
           /\ \E k \in (sepIndex + 1)..(dotIndex - 1) : Char(key, k) # "."
        THEN SubSeq(key, dotIndex, Len(key))
        ELSE ""

\* round(size_bytes / (1024 * 1024), 2), in hundredths of a megabyte: to the
\* nearest hundredth, an exact half to the even one
size_mb_hundredths(size_bytes) ==
    LET q == (size_bytes * 100) \div 1048576
        r == (size_bytes * 100) % 1048576
    IN  IF 2 * r > 1048576 \/ (2 * r = 1048576 /\ q % 2 = 1) THEN q + 1 ELSE q

----------------------------------------------------------------------------
(* Python dicts                                                             *)

DictHas(d, key) == \E k \in 1..Len(d) : d[k][1] = key

\* d.get(key, 0)
DictGet(d, key) ==
    IF DictHas(d, key) THEN d[CHOOSE k \in 1..Len(d) : d[k][1] = key][2] ELSE 0

\* d[key] = value: in place for a key the dict has, at the end for a new one
DictSet(d, key, value) ==
    IF DictHas(d, key)
    THEN [k \in 1..Len(d) |-> IF d[k][1] = key THEN <<key, value>> ELSE d[k]]
    ELSE Append(d, <<key, value>>)

\* the stable insertion of an item into items sorted by falling count
InsertByCount(sorted, item) ==
    LET after == {k \in 1..Len(sorted) : sorted[k][2] < item[2]}
        at == IF after = {} THEN Len(sorted) + 1 ELSE CHOOSE k \in after : \A m \in after : k <= m
    IN  SubSeq(sorted, 1, at - 1) \o <<item>> \o SubSeq(sorted, at, Len(sorted))

\* dict(sorted(d.items(), key=lambda x: x[1], reverse=True))
RECURSIVE SortByCount(_)
SortByCount(d) ==
    IF d = <<>> THEN <<>>
    ELSE InsertByCount(SortByCount(SubSeq(d, 1, Len(d) - 1)), d[Len(d)])

----------------------------------------------------------------------------
(* list_files_in_bucket                                                     *)

\* what the unsigned list_objects_v2 call can do: answer (with or without a
\* Contents entry), raise a ClientError, or raise an error botocore does not
\* derive from ClientError
NoException == "no exception"

\* str(e) of a botocore ClientError
ClientErrorText(o) ==
    "An error occurred (" \o o.code \o ") when calling the ListObjectsV2 operation: " \o o.message

\* the body of the for loop over objects.get('Contents', []): the files and the
\* extension counts after the objects of contents, or the KeyError an object
\* without one of the fields read raises
RECURSIVE ScanContents(_, _, _, _, _)
ScanContents(name, reg, contents, files, extension_count) ==
    IF contents = <<>>
    THEN [raised |-> NoException, files |-> files, extension_count |-> extension_count]
    ELSE LET obj == contents[1]
         IN  IF ~({"Key", "Size", "LastModified"} \subseteq DOMAIN obj)
             THEN [raised |-> "KeyError", files |-> files, extension_count |-> extension_count]
             ELSE LET link == object_link(name, reg, quote(obj.Key))
                      file_info == [bucket_name |-> name,
                                    region |-> reg,
                                    key |-> obj.Key,
                                    url |-> link,
                                    size_bytes |-> obj.Size,
                                    size_mb |-> size_mb_hundredths(obj.Size),
                                    last_modified |-> obj.LastModified]
                      file_extension == splitext_ext(obj.Key)
                      counted == IF file_extension # ""
                                 THEN DictSet(extension_count, file_extension,
                                              DictGet(extension_count, file_extension) + 1)
                                 ELSE extension_count
                 IN  ScanContents(name, reg, Tail(contents), Append(files, file_info), counted)

\* the handlers of list_files_in_bucket: what it does with the exception the
\* listing step raised, the report being result
HandleListError(name, reg, o, result) ==
    IF o.kind = "ClientError"
    THEN LET error_msg == IF o.code = "NoSuchBucket"
                          THEN "Bucket " \o name \o " not found in region " \o Format(reg)
                          ELSE "An error occurred in region " \o Format(reg) \o ": "
                                   \o ClientErrorText(o)
         IN  [raised |-> NoException,
              result |-> [result EXCEPT !.errors = Append(@, error_msg)]]
    ELSE [raised |-> o.kind, result |-> result]

\* list_files_in_bucket(name, reg) when the list call does o: the exception
\* that leaves the function, if any, and the report it returns otherwise
list_files_in_bucket(name, reg, o) ==
    LET result == [bucket_name |-> name,
                   region |-> reg,
                   scan_timestamp |-> "now",
                   files |-> <<>>,
                   extension_statistics |-> <<>>,
                   errors |-> <<>>]
    IN  IF o.kind = "response"
        THEN LET contents == IF "Contents" \in DOMAIN o.response
                             THEN o.response.Contents ELSE <<>>
                 scanned == ScanContents(name, reg, contents, <<>>, <<>>)
             IN  IF scanned.raised # NoException
                 THEN [raised |-> scanned.raised,
                       result |-> [result EXCEPT !.files = scanned.files]]
                 ELSE [raised |-> NoException,
                       result |-> [result EXCEPT
                                      !.files = scanned.files,
                                      !.extension_statistics =
                                          SortByCount(scanned.extension_count)]]
        ELSE HandleListError(name, reg, o, result)

\* MergeExtensionCounts assigning a report's count instead of adding it
RECURSIVE MergeExtensionCountsOverwrite(_, _)
MergeExtensionCountsOverwrite(global, stats) ==
    IF stats = <<>> THEN global
    ELSE MergeExtensionCountsOverwrite(
             DictSet(global, stats[1][1], stats[1][2]),
             Tail(stats))

\* combine mode's loop over a report's extension_statistics.items()
RECURSIVE MergeExtensionCounts(_, _)
MergeExtensionCounts(global, stats) ==
    IF stats = <<>> THEN global
    ELSE MergeExtensionCounts(
             DictSet(global, stats[1][1], DictGet(global, stats[1][1]) + stats[1][2]),
             Tail(stats))

----------------------------------------------------------------------------
(* The scan of the resolved targets: combine mode and separate mode         *)

MaxTargets == 3

ResolvedTargets == {<<"a", "us-east-1">>, <<"b.c", "eu-west-2">>}

Obj(key, size) == [Key |-> key, Size |-> size, LastModified |-> "2024-01-01T00:00:00+00:00"]

\* the answers of the list call: no Contents entry, three .pdf keys and a
\* .txt, five .pdf keys, keys without a counted extension, and an object
\* entry without LastModified
ListResponses ==
    {[KeyCount |-> 0],
     [Contents |-> <<Obj("a.pdf", 0), Obj("n.txt", 5242), Obj("b.pdf", 131072),
                     Obj("r/c.pdf", 1048576)>>],
     [Contents |-> <<Obj("a.pdf", 1), Obj("b.pdf", 2), Obj("c.pdf", 3), Obj("d.pdf", 4),
                     Obj("x y.pdf", 5)>>],
     [Contents |-> <<Obj("noext", 7), Obj("dir.v1/file", 8), Obj(".bashrc", 9),
                     Obj("t.tar.gz", 10), Obj("m.txt", 11)>>],
     [Contents |-> <<Obj("a.pdf", 0), [Key |-> "b.pdf", Size |-> 1]>>]}

ListOutcomes ==
    {[kind |-> "response", response |-> r] : r \in ListResponses}
    \cup {[kind |-> "ClientError", code |-> "NoSuchBucket",
           message |-> "The specified bucket does not exist"],
          [kind |-> "ClientError", code |-> "AccessDenied", message |-> "Access Denied"],
          [kind |-> "EndpointConnectionError"]}

RunInit ==
    /\ detect_idx = 0
    /\ processed_buckets \in SeqsUpTo(ResolvedTargets, MaxTargets)
    /\ combine_mode \in BOOLEAN
    /\ run_pc = "scan"
    /\ scan_idx = 0
    /\ outcomes = <<>>
    /\ combined_results = [scan_timestamp |-> "now",
                           total_buckets |-> Len(processed_buckets),
                           buckets |-> <<>>,
                           global_extension_statistics |-> <<>>]
    /\ global_extension_count = <<>>
    /\ files_written = <<>>
    /\ ValidIdle /\ ParseIdle /\ UrlIdle /\ RegionIdle

\* no target is left after region detection: sys.exit(1)
ExitNoTargets ==
    /\ run_pc = "scan"
    /\ processed_buckets = <<>>
    /\ run_pc' = "exit1"
    /\ UNCHANGED <<detect_idx, processed_buckets, combine_mode, scan_idx, outcomes, combined_results,
                   global_extension_count, files_written,
                   validVars, parseVars, urlVars, regionVars>>

\* one iteration of combine mode's loop; an exception that leaves
\* list_files_in_bucket leaves the program, which has written nothing yet
ScanCombined ==
    /\ run_pc = "scan" /\ combine_mode
    /\ scan_idx < Len(processed_buckets)
    /\ \E o \in ListOutcomes :
        LET target == processed_buckets[scan_idx + 1]
            call == list_files_in_bucket(target[1], target[2], o)
        IN  /\ outcomes' = Append(outcomes, o)
            /\ IF call.raised # NoException
               THEN /\ run_pc' = "traceback"
                    /\ UNCHANGED <<scan_idx, combined_results, global_extension_count>>
               ELSE /\ combined_results' =
                           [combined_results EXCEPT !.buckets = Append(@, call.result)]
                    /\ global_extension_count' =
                           MergeExtensionCounts(global_extension_count,
                                                call.result.extension_statistics)
                    /\ scan_idx' = scan_idx + 1
                    /\ run_pc' = run_pc
    /\ UNCHANGED <<detect_idx, processed_buckets, combine_mode, files_written,
                   validVars, parseVars, urlVars, regionVars>>

\* after the loop: the global statistics are sorted and the one file is written
FinishCombined ==
    /\ run_pc = "scan" /\ combine_mode
    /\ processed_buckets # <<>>
    /\ scan_idx = Len(processed_buckets)
    /\ combined_results' =
           [combined_results EXCEPT
               !.global_extension_statistics = SortByCount(global_extension_count)]
    /\ files_written' = Append(files_written,
                               [name |-> "Combined_timestamp.json",
                                content |-> combined_results'])
    /\ run_pc' = "done"
    /\ UNCHANGED <<detect_idx, processed_buckets, combine_mode, scan_idx, outcomes,
                   global_extension_count, validVars, parseVars, urlVars, regionVars>>

\* one iteration of separate mode's loop: the bucket is scanned and its file written
ScanSeparate ==
    /\ run_pc = "scan" /\ ~combine_mode
    /\ scan_idx < Len(processed_buckets)
    /\ \E o \in ListOutcomes :
        LET target == processed_buckets[scan_idx + 1]
            call == list_files_in_bucket(target[1], target[2], o)
        IN  /\ outcomes' = Append(outcomes, o)
            /\ IF call.raised # NoException
               THEN /\ run_pc' = "traceback"
                    /\ UNCHANGED <<scan_idx, files_written>>
               ELSE /\ files_written' = Append(files_written,
                                               [name |-> target[1] \o "_timestamp.json",
                                                content |-> call.result])
                    /\ scan_idx' = scan_idx + 1
                    /\ run_pc' = run_pc
    /\ UNCHANGED <<detect_idx, processed_buckets, combine_mode, combined_results, global_extension_count,
                   validVars, parseVars, urlVars, regionVars>>

\* separate mode's loop ends
FinishSeparate ==
    /\ run_pc = "scan" /\ ~combine_mode
    /\ processed_buckets # <<>>
    /\ scan_idx = Len(processed_buckets)
    /\ run_pc' = "done"
    /\ UNCHANGED <<detect_idx, processed_buckets, combine_mode, scan_idx, outcomes, combined_results,
                   global_extension_count, files_written,
                   validVars, parseVars, urlVars, regionVars>>

Init == RunInit

Next == ExitNoTargets \/ ScanCombined \/ FinishCombined \/ ScanSeparate \/ FinishSeparate

Spec == Init /\ [][Next]_vars

----------------------------------------------------------------------------
(* Properties of the scan                                                   *)

\* the reports the run has produced so far, in scan order
Reports ==
    IF combine_mode THEN combined_results.buckets
    ELSE [k \in 1..Len(files_written) |-> files_written[k].content]

\* C3: list_files_in_bucket never raises: every failure of the listing step
\* (NoSuchBucket, another client error, a connection or endpoint error, a
\* malformed object entry) gives a report with an entry in errors, and no
\* exception reaches the caller.
C3_NeverRaises ==
    /\ run_pc # "traceback"
    /\ \A k \in 1..Len(outcomes) :
           (k <= Len(Reports) /\ outcomes[k].kind # "response") => Reports[k].errors # <<>>

\* C4: in combined and in separate mode, a target whose list call raises a
\* client error other than NoSuchBucket gives a report with no files and with
\* errors, and every later target of the list is still enumerated and reported.
C4_ClientErrorIsolated ==
    run_pc \in {"done", "traceback"} =>
        \A k \in 1..Len(outcomes) :
            (outcomes[k].kind = "ClientError" /\ outcomes[k].code # "NoSuchBucket") =>
                /\ Reports[k].files = <<>>
                /\ Reports[k].errors # <<>>
                /\ \A j \in (k + 1)..Len(processed_buckets) :
                    /\ j <= Len(outcomes)
                    /\ j <= Len(Reports)
                    /\ Reports[j].bucket_name = processed_buckets[j][1]
                    /\ Len(files_written) >= 1

\* the extensions a dict counts
DictKeys(d) == {d[k][1] : k \in 1..Len(d)}

\* the sum of the counts of ext over the reports rs
RECURSIVE SumOfCounts(_, _)
SumOfCounts(rs, ext) ==
    IF rs = <<>> THEN 0
    ELSE DictGet(rs[1].extension_statistics, ext) + SumOfCounts(Tail(rs), ext)

\* the global counts the program's accumulation gives when it takes the
\* reports rs in the order p
RECURSIVE MergedInOrder(_, _)
MergedInOrder(rs, p) ==
    IF p = <<>> THEN <<>>
    ELSE MergeExtensionCounts(MergedInOrder(rs, SubSeq(p, 1, Len(p) - 1)),
                              rs[p[Len(p)]].extension_statistics)

Orders(n) == {p \in [1..n -> 1..n] : \A a, b \in 1..n : a # b => p[a] # p[b]}

\* C5: at the end of a combined run, for every extension the count in
\* global_extension_statistics is the sum of its counts over the reports in
\* buckets (3 and 5 give 8), an extension appears globally only if it appears
\* in some report, and no order of processing the buckets gives other counts.
C5_GlobalIsSum ==
    (run_pc = "done" /\ combine_mode) =>
        LET global == combined_results.global_extension_statistics
            rs == combined_results.buckets
            inReports == UNION {DictKeys(rs[k].extension_statistics) : k \in 1..Len(rs)}
        IN  /\ Len(rs) = Len(processed_buckets)
            /\ files_written[Len(files_written)].content.global_extension_statistics = global
            /\ Cardinality(DictKeys(global)) = Len(global)
            /\ DictKeys(global) = inReports
            /\ \A ext \in inReports : DictGet(global, ext) = SumOfCounts(rs, ext)
            /\ \A p \in Orders(Len(rs)) : \A ext \in inReports :
                   DictGet(MergedInOrder(rs, p), ext) = DictGet(global, ext)
            /\ (Len(rs) = 2
                  /\ DictGet(rs[1].extension_statistics, ".pdf") = 3
                  /\ DictGet(rs[2].extension_statistics, ".pdf") = 5) =>
                   DictGet(global, ".pdf") = 8

C5_Witness ==
    /\ run_pc = "done" /\ combine_mode
    /\ Len(combined_results.buckets) = 2
    /\ DictGet(combined_results.buckets[1].extension_statistics, ".pdf") = 3
    /\ DictGet(combined_results.buckets[2].extension_statistics, ".pdf") = 5
    /\ DictGet(combined_results.global_extension_statistics, ".pdf") = 8

----------------------------------------------------------------------------
(* The two URL builders applied to one bucket, region and key               *)

MaxNameLen == 3

NameAlphabet == {"a", ".", "-"}

BucketNames ==
    StringsUpTo(NameAlphabet, MaxNameLen)
        \cup {"demo.enter.com", "my.bucket.name", "my-public-bucket", "Bucket1"}

\* a region is unset, empty, the default or another one
UrlRegions == {None, "", "us-east-1", "us-west-2", "eu-central-1"}

ObjectKeys == {"a.pdf", "d/e f.txt", "k"}

UrlInit ==
    /\ bucket_name \in BucketNames
    /\ region \in UrlRegions
    /\ file_key \in ObjectKeys
    /\ bucket_url = None
    /\ object_url = None
    /\ bucket_results = <<>>
    /\ ValidIdle /\ ParseIdle /\ RegionIdle /\ RunIdle

\* get_bucket_url(bucket_name, region) returns
BuildBucketUrl ==
    /\ bucket_url = None
    /\ bucket_url' = get_bucket_url(bucket_name, region)
    /\ UNCHANGED <<bucket_name, region, file_key, object_url, bucket_results,
                   validVars, parseVars, regionVars, runVars>>

\* list_files_in_bucket(bucket_name, region) returns, the bucket holding the
\* one object file_key: the url of its file record
BuildObjectUrl ==
    /\ object_url = None
    /\ LET o == [kind |-> "response", response |-> [Contents |-> <<Obj(file_key, 1)>>]]
           call == list_files_in_bucket(bucket_name, region, o)
       IN  object_url' = call.result.files[1].url
    /\ UNCHANGED <<bucket_name, region, file_key, bucket_url, bucket_results,
                   validVars, parseVars, regionVars, runVars>>

UrlNext == BuildBucketUrl \/ BuildObjectUrl

SpecUrl == UrlInit /\ [][UrlNext]_vars

----------------------------------------------------------------------------
(* Properties of the URL builders                                           *)

\* s.endswith(p)
EndsWith(s, p) == Len(p) <= Len(s) /\ SubSeq(s, Len(s) - Len(p) + 1, Len(s)) = p

\* the host of an https URL and what follows it
UrlHost(url) == SplitFirst(SubSeq(url, 9, Len(url)), "/")
UrlPath(url) == SubSeq(url, 9 + Len(UrlHost(url)), Len(url))

\* path-style: the bucket name leads the path after an s3 host
PathStyle(url, name, tail) ==
    /\ StartsWith(url, "https://")
    /\ StartsWith(UrlHost(url), "s3.")
    /\ EndsWith(UrlHost(url), ".amazonaws.com")
    /\ UrlPath(url) = "/" \o name \o tail

\* virtual-hosted style: the bucket name is the leading label of the host
VirtualHosted(url, name, tail) ==
    /\ StartsWith(url, "https://")
    /\ UrlHost(url) = name \o ".s3.amazonaws.com"
    /\ UrlPath(url) = tail

HasDot(name) == \E k \in 1..Len(name) : Char(name, k) = "."

\* C8: for a bucket name with a dot, the URL of get_bucket_url and every
\* object URL of list_files_in_bucket are path-style; for a name without a
\* dot both are virtual-hosted style, whatever the region.
C8_StyleByDot ==
    /\ bucket_url # None =>
           IF HasDot(bucket_name)
           THEN PathStyle(bucket_url, bucket_name, "")
           ELSE VirtualHosted(bucket_url, bucket_name, "")
    /\ object_url # None =>
           IF HasDot(bucket_name)
           THEN PathStyle(object_url, bucket_name, "/" \o quote(file_key))
           ELSE VirtualHosted(object_url, bucket_name, "/" \o quote(file_key))

C8_Witness ==
    /\ bucket_name = "my.bucket.name"
    /\ region = "us-west-2"
    /\ bucket_url = "https://s3.us-west-2.amazonaws.com/my.bucket.name"
    /\ object_url = "https://s3.us-west-2.amazonaws.com/my.bucket.name/d/e%20f.txt"

\* the host of a path-style URL as the rule gives it: without a region
\* segment for the default region alone, with the region otherwise
RuleHost(reg) ==
    IF reg = "us-east-1" THEN "s3.amazonaws.com"
    ELSE "s3." \o (IF reg = None THEN "" ELSE reg) \o ".amazonaws.com"

\* C9: in every path-style URL built for a dotted bucket name, by
\* get_bucket_url and by list_files_in_bucket, the region segment is omitted
\* exactly when the region is us-east-1, and for every other region value
\* (an unset or empty one too) the host is s3.<region>.amazonaws.com; the two
\* builders agree for every name and region.
C9_RegionSegment ==
    HasDot(bucket_name) =>
        /\ bucket_url # None =>
               (UrlHost(bucket_url) = "s3.amazonaws.com") = (region = "us-east-1")
        /\ object_url # None =>
               (UrlHost(object_url) = "s3.amazonaws.com") = (region = "us-east-1")
        /\ (bucket_url # None /\ region \notin {None, "us-east-1"}) =>
               UrlHost(bucket_url) = RuleHost(region)
        /\ (object_url # None /\ region \notin {None, "us-east-1"}) =>
               UrlHost(object_url) = RuleHost(region)
        /\ (bucket_url # None /\ object_url # None) =>
               UrlHost(bucket_url) = UrlHost(object_url)

----------------------------------------------------------------------------
(* get_bucket_region                                                        *)

\* the region a redirect's Location yields, None if it yields none
RedirectRegion(location) ==
    IF Contains(location, ".s3.") /\ Contains(location, ".amazonaws.com")
    THEN LET parts == SplitFirst(SplitSecond(location, ".s3."), ".amazonaws.com")
         IN  IF parts # "" /\ parts # "amazonaws" THEN parts ELSE None
    ELSE IF Contains(location, "s3.") /\ Contains(location, ".amazonaws.com")
    THEN LET match == SplitFirst(SplitSecond(location, "s3."), ".amazonaws.com")
         IN  IF match # "" /\ match # "amazonaws" THEN match ELSE None
    ELSE None

\* HeadRegion reading the redirect before the region header
HeadRegionRedirectFirst(resp) ==
    IF resp.status_code \in {301, 302, 307} /\ "Location" \in DOMAIN resp.headers
       /\ RedirectRegion(resp.headers["Location"]) # None
    THEN RedirectRegion(resp.headers["Location"])
    ELSE IF "x-amz-bucket-region" \in DOMAIN resp.headers
    THEN resp.headers["x-amz-bucket-region"]
    ELSE None

\* method 1 on the HEAD response: the region it returns, None if it falls
\* through to method 2
HeadRegion(resp) ==
    IF "x-amz-bucket-region" \in DOMAIN resp.headers
    THEN resp.headers["x-amz-bucket-region"]
    ELSE IF resp.status_code \in {301, 302, 307} /\ "Location" \in DOMAIN resp.headers
    THEN RedirectRegion(resp.headers["Location"])
    ELSE None

\* ApiResult handling NoSuchBucket like any other client error
ApiResultNoShortCut(o) ==
    IF o.kind = "response" /\ "LocationConstraint" \in DOMAIN o.response
    THEN [returns |-> TRUE,
          value |-> IF o.response.LocationConstraint = None
                    THEN "us-east-1" ELSE o.response.LocationConstraint]
    ELSE [returns |-> FALSE, value |-> None]

\* method 2 when get_bucket_location does o: whether the function returns
\* there, and what
ApiResult(o) ==
    IF o.kind = "response" /\ "LocationConstraint" \in DOMAIN o.response
    THEN [returns |-> TRUE,
          value |-> IF o.response.LocationConstraint = None
                    THEN "us-east-1" ELSE o.response.LocationConstraint]
    ELSE IF o.kind = "ClientError" /\ o.code = "NoSuchBucket"
    THEN [returns |-> TRUE, value |-> None]
    ELSE [returns |-> FALSE, value |-> None]

LocationOpen == "<LocationConstraint>"
LocationClose == "</LocationConstraint>"

\* re.search(r'<LocationConstraint>([^<]+)</LocationConstraint>', text): the
\* group of the leftmost match, None if there is no match
LocationMatch(text) ==
    LET group(p) == SplitFirst(SubSeq(text, p + Len(LocationOpen), Len(text)), "<")
        hits == {p \in 1..Len(text) :
                    /\ StartsWith(SubSeq(text, p, Len(text)), LocationOpen)
                    /\ group(p) # ""
                    /\ StartsWith(SubSeq(text, p + Len(LocationOpen) + Len(group(p)), Len(text)),
                                  LocationClose)}
    IN  IF hits = {} THEN None
        ELSE group(CHOOSE p \in hits : \A q \in hits : p <= q)

\* method 3 when the GET does o: the region it returns, None if it falls
\* through to the end of the function
GetRegion(o) ==
    IF o.kind = "response" /\ o.status_code = 200
    THEN IF LocationMatch(o.text) # None THEN LocationMatch(o.text)
         ELSE IF Contains(o.text, "<LocationConstraint/>")
                 \/ Contains(o.text, "<LocationConstraint></LocationConstraint>")
         THEN "us-east-1"
         ELSE None
    ELSE None

DetectNames == {"a", "b.c"}

HeadLocations ==
    {"https://a.s3.eu-west-2.amazonaws.com/", "https://s3.eu-west-2.amazonaws.com/b.c",
     "https://a.s3.amazonaws.com/", "https://s3.amazonaws.com/b.c", "https://example.com/"}

\* the header dicts of a HEAD response: with or without a bucket region, with
\* or without a Location
HeadHeaders ==
    {<<>>} \cup {[h \in {"x-amz-bucket-region"} |-> r] : r \in {"eu-west-2", "us-west-2", ""}}
    \cup {[h \in {"Location"} |-> l] : l \in HeadLocations}
    \cup {[h \in {"x-amz-bucket-region", "Location"} |->
              IF h = "Location" THEN l ELSE r] : r \in {"us-west-2", ""}, l \in HeadLocations}

HeadOutcomes ==
    {[kind |-> "RequestException"]}
    \cup {[kind |-> "response", status_code |-> st, headers |-> h] :
             st \in {200, 301, 302, 307, 403, 404}, h \in HeadHeaders}

ApiOutcomes ==
    {[kind |-> "response", response |-> [LocationConstraint |-> c]] :
         c \in {None, "eu-west-2", ""}}
    \cup {[kind |-> "response", response |-> [ResponseMetadata |-> "only"]],
          [kind |-> "ClientError", code |-> "NoSuchBucket"],
          [kind |-> "ClientError", code |-> "AccessDenied"],
          [kind |-> "EndpointConnectionError"]}

GetTexts ==
    {"<LocationConstraint>eu-west-2</LocationConstraint>",
     "<?xml version=\"1.0\"?><LocationConstraint>ap-southeast-2</LocationConstraint>",
     "<LocationConstraint/>",
     "<LocationConstraint></LocationConstraint>",
     "<LocationConstraint xmlns=\"http://s3.amazonaws.com/doc/2006-03-01/\">eu-west-1</LocationConstraint>",
     "<Error><Code>AccessDenied</Code></Error>",
     ""}

GetOutcomes ==
    {[kind |-> "RequestException"]}
    \cup {[kind |-> "response", status_code |-> st, text |-> t] :
             st \in {200, 403, 404}, t \in GetTexts}

RegionInit ==
    /\ reg_bucket \in DetectNames
    /\ reg_pc = "method1"
    /\ probes = <<>>
    /\ head_resp = <<>> /\ api_resp = <<>> /\ get_resp = <<>>
    /\ reg_ret = <<>>
    /\ ValidIdle /\ ParseIdle /\ UrlIdle /\ RunIdle

\* method 1: the HEAD request on the bucket's URL, the region header and the
\* redirect of its response
Method1 ==
    /\ reg_pc = "method1"
    /\ \E o \in HeadOutcomes :
        /\ head_resp' = <<o>>
        /\ probes' = Append(probes, [method |-> "HEAD",
                                     url |-> get_bucket_url(reg_bucket, None)])
        /\ IF o.kind = "response" /\ HeadRegion(o) # None
           THEN reg_ret' = <<HeadRegion(o)>> /\ reg_pc' = "return"
           ELSE reg_ret' = reg_ret /\ reg_pc' = "method2"
    /\ UNCHANGED <<reg_bucket, api_resp, get_resp, validVars, parseVars, urlVars, runVars>>

\* method 2: the unsigned get_bucket_location call
Method2 ==
    /\ reg_pc = "method2"
    /\ \E o \in ApiOutcomes :
        /\ api_resp' = <<o>>
        /\ probes' = Append(probes, [method |-> "get_bucket_location", url |-> reg_bucket])
        /\ IF ApiResult(o).returns
           THEN reg_ret' = <<ApiResult(o).value>> /\ reg_pc' = "return"
           ELSE reg_ret' = reg_ret /\ reg_pc' = "method3"
    /\ UNCHANGED <<reg_bucket, head_resp, get_resp, validVars, parseVars, urlVars, runVars>>

\* method 3: the GET of <bucket-url>?location, and the end of the function
Method3 ==
    /\ reg_pc = "method3"
    /\ \E o \in GetOutcomes :
        /\ get_resp' = <<o>>
        /\ probes' = Append(probes, [method |-> "GET",
                                     url |-> get_bucket_url(reg_bucket, None) \o "?location"])
        /\ reg_ret' = <<GetRegion(o)>>
        /\ reg_pc' = "return"
    /\ UNCHANGED <<reg_bucket, head_resp, api_resp, validVars, parseVars, urlVars, runVars>>

RegionNext == Method1 \/ Method2 \/ Method3

SpecRegion == RegionInit /\ [][RegionNext]_vars

----------------------------------------------------------------------------
(* Properties of get_bucket_region                                          *)

ProbeOrder == <<"HEAD", "get_bucket_location", "GET">>

\* the HEAD response carries the bucket region header
HasRegionHeader(o) == o.kind = "response" /\ "x-amz-bucket-region" \in DOMAIN o.headers

\* the HEAD response is a redirect whose Location yields a region
HasRedirectRegion(o) ==
    /\ o.kind = "response"
    /\ o.status_code \in {301, 302, 307}
    /\ "Location" \in DOMAIN o.headers
    /\ RedirectRegion(o.headers["Location"]) # None

\* the location call answered with a location constraint
HasLocation(o) == o.kind = "response" /\ "LocationConstraint" \in DOMAIN o.response

\* the probes issued so far that produced a region, and the region of each,
\* in the order of the probes (header, redirect, location call, raw GET)
Produced ==
    (IF head_resp # <<>> /\ HasRegionHeader(head_resp[1])
     THEN <<head_resp[1].headers["x-amz-bucket-region"]>> ELSE <<>>)
    \o (IF head_resp # <<>> /\ HasRedirectRegion(head_resp[1])
        THEN <<RedirectRegion(head_resp[1].headers["Location"])>> ELSE <<>>)
    \o (IF api_resp # <<>> /\ HasLocation(api_resp[1])
        THEN <<IF api_resp[1].response.LocationConstraint = None THEN "us-east-1"
               ELSE api_resp[1].response.LocationConstraint>>
        ELSE <<>>)
    \o (IF get_resp # <<>> /\ GetRegion(get_resp[1]) # None
        THEN <<GetRegion(get_resp[1])>> ELSE <<>>)

C2_NoSuchBucketShortCut ==
    api_resp # <<>> =>
        LET o == api_resp[1]
        IN  /\ (o.kind = "ClientError" /\ o.code = "NoSuchBucket") =>
                /\ reg_pc = "return"
                /\ reg_ret = <<None>>
                /\ get_resp = <<>>
                /\ \A k \in 1..Len(probes) : probes[k].method # "GET"
            /\ (~HasLocation(o) /\ ~(o.kind = "ClientError" /\ o.code = "NoSuchBucket")) =>
                /\ reg_pc \in {"method3", "return"}
                /\ reg_pc = "return" =>
                    /\ get_resp # <<>>
                    /\ Len(probes) = 3
                    /\ probes[3] = [method |-> "GET",
                                    url |-> probes[1].url \o "?location"]

C2_Witness ==
    /\ reg_pc = "return"
    /\ api_resp = <<[kind |-> "ClientError", code |-> "NoSuchBucket"]>>
    /\ reg_ret = <<None>>
    /\ Len(probes) = 2

C2_WitnessOtherError ==
    /\ reg_pc = "return"
    /\ api_resp = <<[kind |-> "ClientError", code |-> "AccessDenied"]>>
    /\ Len(probes) = 3

----------------------------------------------------------------------------
(* The run of the main block once the work list is chosen: the region       *)
(* detection phase over buckets_to_process, then the scan                   *)

MaxWork == 2

\* a target whose region is unset and a target with an explicit region
WorkTargets == {<<"a", None>>, <<"b.c", "us-west-2">>}

\* the detection loop left after its first target
DetectionOverAfterFirst(idx, todo) == idx >= 1

\* the for loop over buckets_to_process is exhausted
DetectionOver(idx, todo) == idx = Len(todo)

MainInit ==
    /\ buckets_to_process \in SeqsUpTo(WorkTargets, MaxWork) \ {<<>>}
    /\ sys_argv = <<>> /\ args = <<>> /\ combine = FALSE /\ buckets = <<>> /\ i = 0
    /\ parse_pc = "selected" /\ parse_ret = <<>>
    /\ detect_idx = 0
    /\ processed_buckets = <<>>
    /\ combine_mode \in BOOLEAN
    /\ run_pc = "detect"
    /\ scan_idx = 0
    /\ outcomes = <<>>
    /\ combined_results = <<>>
    /\ global_extension_count = <<>>
    /\ files_written = <<>>
    /\ ValidIdle /\ UrlIdle /\ RegionIdle

\* the loop takes a target with an explicit region
DetectExplicit ==
    /\ run_pc = "detect" /\ reg_pc = "idle"
    /\ detect_idx < Len(buckets_to_process)
    /\ LET target == buckets_to_process[detect_idx + 1]
       IN  /\ target[2] # None
           /\ processed_buckets' = Append(processed_buckets, target)
    /\ detect_idx' = detect_idx + 1
    /\ UNCHANGED <<combine_mode, run_pc, scan_idx, outcomes, combined_results,
                   global_extension_count, files_written,
                   validVars, parseVars, urlVars, regionVars>>

\* the loop takes a target without a region: get_bucket_region(bucket) is called
DetectStart ==
    /\ run_pc = "detect" /\ reg_pc = "idle"
    /\ detect_idx < Len(buckets_to_process)
    /\ LET target == buckets_to_process[detect_idx + 1]
       IN  /\ target[2] = None
           /\ reg_bucket' = target[1]
    /\ reg_pc' = "method1"
    /\ probes' = <<>>
    /\ head_resp' = <<>> /\ api_resp' = <<>> /\ get_resp' = <<>>
    /\ reg_ret' = <<>>
    /\ UNCHANGED <<validVars, parseVars, urlVars, runVars>>

\* get_bucket_region has returned: the target is skipped when the region is
\* None and appended with the detected region otherwise
DetectReturn ==
    /\ run_pc = "detect" /\ reg_pc = "return"
    /\ LET detected_region == reg_ret[1]
       IN  processed_buckets' =
               IF detected_region = None
               THEN processed_buckets
               ELSE Append(processed_buckets, <<reg_bucket, detected_region>>)
    /\ detect_idx' = detect_idx + 1
    /\ reg_bucket' = "" /\ reg_pc' = "idle" /\ probes' = <<>>
    /\ head_resp' = <<>> /\ api_resp' = <<>> /\ get_resp' = <<>> /\ reg_ret' = <<>>
    /\ UNCHANGED <<combine_mode, run_pc, scan_idx, outcomes, combined_results,
                   global_extension_count, files_written,
                   validVars, parseVars, urlVars>>

\* the loop has ended: the program goes on to the scan (and leaves at once
\* when processed_buckets is empty, ExitNoTargets)
DetectDone ==
    /\ run_pc = "detect" /\ reg_pc = "idle"
    /\ DetectionOver(detect_idx, buckets_to_process)
    /\ run_pc' = "scan"
    /\ combined_results' = [scan_timestamp |-> "now",
                            total_buckets |-> Len(processed_buckets),
                            buckets |-> <<>>,
                            global_extension_statistics |-> <<>>]
    /\ UNCHANGED <<detect_idx, processed_buckets, combine_mode, scan_idx, outcomes,
                   global_extension_count, files_written,
                   validVars, parseVars, urlVars, regionVars>>

MainNext ==
    \/ DetectExplicit \/ DetectStart \/ Method1 \/ Method2 \/ Method3
    \/ DetectReturn \/ DetectDone
    \/ ExitNoTargets \/ ScanCombined \/ FinishCombined \/ ScanSeparate \/ FinishSeparate

SpecMain == MainInit /\ [][MainNext]_vars

----------------------------------------------------------------------------
(* Properties of the run                                                    *)

\* a step of a target later than processed_buckets[k] has begun: a later
\* target was kept, or a region detection (always of a later target) is under way
LaterTargetBegun(k) == k < Len(processed_buckets) \/ reg_pc # "idle"

\* p is made of targets of todo, in todo's order; a target that had a region
\* keeps it
KeptInOrder(p, todo) ==
    \E f \in [1..Len(p) -> 1..Len(todo)] :
        /\ \A k \in 1..Len(p) : \A m \in 1..Len(p) : k < m => f[k] < f[m]
        /\ \A k \in 1..Len(p) :
               /\ p[k][1] = todo[f[k]][1]
               /\ todo[f[k]][2] # None => p[k][2] = todo[f[k]][2]

\* C11 as stated: targets are whole units, the region detection, the
\* enumeration and (in separate mode) the file of a target are complete
\* before any step of a later target begins.
C11_WholeUnits ==
    \A k \in 1..Len(processed_buckets) :
        LaterTargetBegun(k) =>
            /\ k <= scan_idx
            /\ ~combine_mode => k <= Len(files_written)

\* C11: the run works on one target at a time, in two phases.  First the
\* region of every target of buckets_to_process is settled, in list order,
\* one detection at a time; no bucket is enumerated and no file written
\* before the last target's region is settled.  Then the kept targets are
\* enumerated in the same order, and in separate mode the file of a target
\* is written before the next target is enumerated.
C11_TwoPhases ==
    /\ detect_idx <= Len(buckets_to_process)
    /\ scan_idx <= Len(processed_buckets)
    /\ Len(processed_buckets) <= detect_idx
    /\ KeptInOrder(processed_buckets, SubSeq(buckets_to_process, 1, detect_idx))
    /\ run_pc = "detect" => scan_idx = 0 /\ outcomes = <<>> /\ files_written = <<>>
    /\ run_pc # "detect" => detect_idx = Len(buckets_to_process) /\ reg_pc = "idle"
    /\ reg_pc # "idle" =>
        /\ detect_idx < Len(buckets_to_process)
        /\ buckets_to_process[detect_idx + 1] = <<reg_bucket, None>>
    /\ Len(outcomes) = scan_idx + (IF run_pc = "traceback" THEN 1 ELSE 0)
    /\ ~combine_mode =>
        /\ Len(files_written) = scan_idx
        /\ \A k \in 1..scan_idx :
               /\ files_written[k].content.bucket_name = processed_buckets[k][1]
               /\ files_written[k].content.region = processed_buckets[k][2]
    /\ combine_mode =>
        /\ Len(files_written) = (IF run_pc = "done" THEN 1 ELSE 0)
        /\ run_pc # "detect" =>
            /\ Len(combined_results.buckets) = scan_idx
            /\ \A k \in 1..scan_idx :
                   combined_results.buckets[k].bucket_name = processed_buckets[k][1]

\* a detected target and an explicit one, both enumerated and written
C11_Witness ==
    /\ buckets_to_process = <<<<"a", None>>, <<"b.c", "us-west-2">>>>
    /\ processed_buckets = <<<<"a", "eu-west-2">>, <<"b.c", "us-west-2">>>>
    /\ ~combine_mode
    /\ run_pc = "done"
    /\ Len(files_written) = 2

\* C12: every entry of processed_buckets has a non-empty bucket name and a
\* non-empty region string: whatever the probes answer, a target without a
\* region gets a non-empty region from get_bucket_region or is dropped.
C12_NonEmptyTargets ==
    \A k \in 1..Len(processed_buckets) :
        /\ processed_buckets[k][1] # ""
        /\ processed_buckets[k][2] # None
        /\ processed_buckets[k][2] # ""

----------------------------------------------------------------------------
(* The extension tally of list_files_in_bucket over the keys of a listing   *)

MaxKeyLen == 4

KeyAlphabet == {"a", ".", "/"}

\* every short key over a letter, the dot and the separator, and the keys of
\* the usual shapes
TallyKeys ==
    (StringsUpTo(KeyAlphabet, MaxKeyLen) \ {""})
        \cup {"dir.v1/file", ".bashrc", "t.tar.gz", "noext", "a.pdf", "r/c.pdf"}

TallyInit ==
    /\ bucket_name = "a"
    /\ region = "us-east-1"
    /\ file_key \in TallyKeys
    /\ bucket_url = None
    /\ object_url = None
    /\ bucket_results = <<>>
    /\ ValidIdle /\ ParseIdle /\ RegionIdle /\ RunIdle

\* list_files_in_bucket(bucket_name, region) returns its report, the listing
\* holding file_key, the key "b.a" and file_key again
TallyListing ==
    /\ bucket_results = <<>>
    /\ LET o == [kind |-> "response",
                 response |-> [Contents |-> <<Obj(file_key, 1), Obj("b.a", 2),
                                              Obj(file_key, 3)>>]]
       IN  bucket_results' = <<list_files_in_bucket(bucket_name, region, o).result>>
    /\ UNCHANGED <<bucket_name, region, file_key, bucket_url, object_url,
                   validVars, parseVars, regionVars, runVars>>

TallyNext == TallyListing

SpecTally == TallyInit /\ [][TallyNext]_vars

----------------------------------------------------------------------------
(* Properties of the extension tally                                        *)

\* the suffix of s from its last dot, "" when s has no dot
FromLastDot(s) ==
    IF \E d \in 1..Len(s) : Char(s, d) = "."
    THEN LET d == CHOOSE d \in 1..Len(s) :
                      Char(s, d) = "." /\ \A m \in (d + 1)..Len(s) : Char(s, m) # "."
         IN  SubSeq(s, d, Len(s))
    ELSE ""

\* the part of a key after its last "/"
LastComponent(key) ==
    IF \E d \in 1..Len(key) : Char(key, d) = "/"
    THEN LET d == CHOOSE d \in 1..Len(key) :
                      Char(key, d) = "/" /\ \A m \in (d + 1)..Len(key) : Char(key, m) # "/"
         IN  SubSeq(key, d + 1, Len(key))
    ELSE key

\* s without the dots it begins with
RECURSIVE WithoutLeadingDots(_)
WithoutLeadingDots(s) ==
    IF s # "" /\ Char(s, 1) = "." THEN WithoutLeadingDots(SubSeq(s, 2, Len(s))) ELSE s

\* the extension of a file name: from the last dot of the last path
\* component, the dots the component begins with set aside
FileExtension(key) == FromLastDot(WithoutLeadingDots(LastComponent(key)))

\* the report counts each listed key once under Ext(key), keys whose Ext is
\* empty left out, and counts nothing else
TalliedBy(Ext(_), report) ==
    LET keys == [k \in 1..Len(report.files) |-> report.files[k].key]
        stats == report.extension_statistics
    IN  /\ Len(keys) = 3
        /\ \A k \in 1..Len(keys) :
               Ext(keys[k]) # "" =>
                   DictGet(stats, Ext(keys[k]))
                       = Cardinality({m \in 1..Len(keys) : Ext(keys[m]) = Ext(keys[k])})
        /\ \A e \in DictKeys(stats) : e # "" /\ \E k \in 1..Len(keys) : Ext(keys[k]) = e
        /\ \A k \in 1..Len(stats) : \A m \in 1..Len(stats) : k # m => stats[k][1] # stats[m][1]

\* C13 as stated: the extension tallied for a key is the substring of the
\* key from its last dot, and a key is left out of extension_statistics
\* exactly when it has no dot.
C13_LastDotTally ==
    bucket_results # <<>> => TalliedBy(FromLastDot, bucket_results[1])

\* C13: the extension tallied for a key is the one os.path.splitext gives:
\* the substring from the last dot of the last path component (the part
\* after the last "/"), provided a character other than a dot stands before
\* that dot in the component; a key is left out of extension_statistics
\* exactly when its last component has no such dot ("noext", ".bashrc",
\* "dir.v1/file").
C13_SplitextTally ==
    bucket_results # <<>> => TalliedBy(FileExtension, bucket_results[1])

\* a dotted directory and a plain file name: only "b.a" is tallied
C13_Witness ==
    /\ file_key = "dir.v1/file"
    /\ bucket_results # <<>>
    /\ bucket_results[1].extension_statistics = <<<<".a", 1>>>>

\* two dots in the file name: the key is tallied twice under the last one
C13_WitnessTallied ==
    /\ file_key = "t.tar.gz"
    /\ bucket_results # <<>>
    /\ bucket_results[1].extension_statistics = <<<<".gz", 2>>, <<".a", 1>>>>

====
